---- MODULE Spec2Model ----
(***************************************************************************)
(* SameGame (src/SameGame.py): the board engine (find_connected_blocks,    *)
(* apply_gravity, shift_columns, calculate_score, check_game_over) and the *)
(* frame loop of game_loop / settings_menu that drives it.                 *)
(*                                                                         *)
(* Rows and columns are numbered from 0 as in the source.  A board is a    *)
(* function  row -> (col -> cell) ; a cell is EMPTY or a colour index.     *)
(* One step of the model is one iteration of the frame loop with the one   *)
(* event that arrived in it.  The pixel geometry is left out: a click is  *)
(* given by the (row, col) that lines 341-342 compute from it, which may   *)
(* lie outside the board, and by whether it hits the "Quit Game" button.   *)
(*                                                                         *)
(* The source's boards are 5..25 wide, 5..20 high, with 4..5 colours.      *)
(* Those boards are far too many to enumerate, so the limits of the        *)
(* settings menu are scaled down (MinWidth .. MaxColors below).            *)
(***************************************************************************)
EXTENDS Integers, Sequences, FiniteSets, TLC

\* ------------------------------------------------------------------ bounds
\* Scaled limits of the settings menu (source: 5, 25, 5, 20, 4, 5).
MinWidth == 1
MaxWidth == 2
MinHeight == 1
MaxHeight == 2
MinColors == 1
MaxColors == 2
\* The grids on which apply_gravity and shift_columns are run on their own.
GridWidth == 3
GridHeight == 3
GridColors == 2
\* The settings of the games played without a visit to the settings menu.
PlayWidth == 3
PlayHeight == 2
PlayColors == 2
\* The grids find_connected_blocks and check_game_over are checked on.
SearchWidth == 3
SearchHeight == 2
SearchColors == 2

\* ------------------------------------------------------------ program state
VARIABLES
    board,                  \* line 38
    score,                  \* line 39
    selected_blocks,        \* line 40: a list of <<row, col>>
    game_over,              \* line 41
    current_num_colors,     \* line 44
    current_board_width,    \* line 45
    current_board_height,   \* line 46
    game_state,             \* line 294: "menu", "settings", "playing"
    running,                \* line 296
    last,                   \* history: the branch taken by the last frame
    activated,              \* history: a region of >= 2 cells has been clicked on this board
    before,                 \* history: the game before the last click on the game screen, and the click
    grid_in,                \* history: the grid a compaction function was last called on
    removals,               \* history: the removals made on this board since create_board
    result                  \* history: the arguments and the value of the last call of an engine function on its own

vars == <<board, score, selected_blocks, game_over, current_num_colors,
          current_board_width, current_board_height, game_state, running,
          last, activated, before, grid_in, removals, result>>

EMPTY == -1

Rows == 0 .. (current_board_height - 1)
Cols == 0 .. (current_board_width - 1)

\* The defaults of lines 44-46, scaled like the limits they lie within.
DefaultColors == MaxColors
DefaultWidth == MaxWidth
DefaultHeight == MaxHeight

\* ----------------------------------------------------------- board engine

\* The bounds test of lines 113, 131 and 345.
InBoard(r, c) ==
    /\ 0 <= r /\ r < current_board_height
    /\ 0 <= c /\ c < current_board_width

\* b with cell (r, c) set to v:  board[r][c] = v
SetCell(b, r, c, v) == [b EXCEPT ![r][c] = v]

\* Neighbors without the step to the left.
Neighbors_no_left(r, c) == << <<r - 1, c>>, <<r + 1, c>>, <<r, c + 1>> >>

\* Line 128: up, down, left, right.
Neighbors(r, c) == << <<r - 1, c>>, <<r + 1, c>>, <<r, c - 1>>, <<r, c + 1>> >>

\* TakeNeighbor without the comparison of colours.
TakeNeighbor_any_color(b, n, color_index, visited) ==
    /\ InBoard(n[1], n[2])
    /\ n \notin visited

\* Lines 131-132: the neighbour n is taken.
TakeNeighbor(b, n, color_index, visited) ==
    /\ InBoard(n[1], n[2])
    /\ b[n[1]][n[2]] = color_index
    /\ n \notin visited

\* Lines 129-134: the for loop over the neighbours; yields <<visited, queue>>.
RECURSIVE ScanNeighbors(_, _, _, _, _, _)
ScanNeighbors(b, color_index, nbrs, i, visited, queue) ==
    IF i > Len(nbrs) THEN <<visited, queue>>
    ELSE IF TakeNeighbor(b, nbrs[i], color_index, visited)
         THEN ScanNeighbors(b, color_index, nbrs, i + 1,
                            visited \cup {nbrs[i]}, Append(queue, nbrs[i]))
         ELSE ScanNeighbors(b, color_index, nbrs, i + 1, visited, queue)

\* Lines 123-135: the while loop of the breadth-first search.
RECURSIVE BfsLoop(_, _, _, _, _)
BfsLoop(b, color_index, queue, visited, connected) ==
    IF queue = <<>> THEN connected
    ELSE LET cell == Head(queue)
             vq == ScanNeighbors(b, color_index, Neighbors(cell[1], cell[2]), 1,
                                 visited, Tail(queue))
         IN BfsLoop(b, color_index, vq[2], vq[1], Append(connected, cell))

\* Lines 107-135.
find_connected_blocks(b, start_row, start_col, color_index) ==
    IF ~InBoard(start_row, start_col) THEN <<>>
    ELSE IF b[start_row][start_col] = EMPTY \/ b[start_row][start_col] # color_index
         THEN <<>>
         ELSE BfsLoop(b, color_index, << <<start_row, start_col>> >>,
                      {<<start_row, start_col>>}, <<>>)

\* Line 146 with a wrong distance: the block falls one row only.
FallRow_one(row, empty_slots) == row + 1

\* Line 146 with the bottom row as the target of every fall.
FallRow_bottom(row, empty_slots) == current_board_height - 1

\* Line 146: the row a block at `row` falls to.
FallRow(row, empty_slots) == row + empty_slots

\* Lines 141-147: the rows of one column, from the bottom up.
RECURSIVE GravityRows(_, _, _, _)
GravityRows(b, col, row, empty_slots) ==
    IF row < 0 THEN b
    ELSE IF b[row][col] = EMPTY
         THEN GravityRows(b, col, row - 1, empty_slots + 1)
         ELSE IF empty_slots > 0
              THEN GravityRows(
                       SetCell(SetCell(b, FallRow(row, empty_slots), col, b[row][col]),
                               row, col, EMPTY),
                       col, row - 1, empty_slots)
              ELSE GravityRows(b, col, row - 1, empty_slots)

\* Lines 139-147: the columns, left to right.
RECURSIVE GravityCols(_, _)
GravityCols(b, col) ==
    IF col >= current_board_width THEN b
    ELSE GravityCols(GravityRows(b, col, current_board_height - 1, 0), col + 1)

\* Lines 137-147.
apply_gravity(b) == GravityCols(b, 0)

\* Lines 156-160 with the test on the top row only.
IsColumnEmpty_top(b, col) == b[0][col] = EMPTY

\* Lines 156-160.
IsColumnEmpty(b, col) == \A row \in Rows : b[row][col] = EMPTY

\* CopyColumn that copies the bottom cell of the column alone.
CopyColumn_bottom(new_board, b, col, current_new_col) ==
    [new_board EXCEPT ![current_board_height - 1][current_new_col] =
                            b[current_board_height - 1][col]]

\* Lines 164-165: column col of b copied to column current_new_col of new_board.
CopyColumn(new_board, b, col, current_new_col) ==
    [row \in Rows |-> [new_board[row] EXCEPT ![current_new_col] = b[row][col]]]

\* Lines 155-166: the loop over the columns; yields new_board.
RECURSIVE ShiftLoop(_, _, _, _)
ShiftLoop(b, col, new_board, current_new_col) ==
    IF col >= current_board_width THEN new_board
    ELSE IF ~IsColumnEmpty(b, col)
         THEN ShiftLoop(b, col + 1, CopyColumn(new_board, b, col, current_new_col),
                        current_new_col + 1)
         ELSE ShiftLoop(b, col + 1, new_board, current_new_col)

\* Lines 149-171: board is overwritten cell by cell with new_board.
shift_columns(b) ==
    ShiftLoop(b, 0, [row \in Rows |-> [col \in Cols |-> EMPTY]], 0)

\* calculate_score without the square.
calculate_score_linear(num_removed_blocks) ==
    IF num_removed_blocks >= 2 THEN num_removed_blocks - 2 ELSE 0

\* Lines 174-179.
calculate_score(num_removed_blocks) ==
    IF num_removed_blocks >= 2
    THEN (num_removed_blocks - 2) * (num_removed_blocks - 2)
    ELSE 0

\* Lines 181-190.
check_game_over(b) ==
    ~ \E r \in Rows, c \in Cols :
        /\ b[r][c] # EMPTY
        /\ Len(find_connected_blocks(b, r, c, b[r][c])) >= 2


\* ------------------------------------------------------------- create_board

\* The score of the game before, kept for the new board.
NewScore_keep == score

\* Line 90: the score of a new board.
NewScore == 0

\* Boards of the default size whatever the settings.
RandomBoards_default ==
    [0 .. (DefaultHeight - 1) -> [0 .. (DefaultWidth - 1) ->
        0 .. (current_num_colors - 1)]]

\* Line 89: the boards random.randint can fill in under the current settings.
RandomBoards == [Rows -> [Cols -> 0 .. (current_num_colors - 1)]]

\* ------------------------------------------------------- the click handler

\* Line 353: selected_blocks == current_selection, a comparison of two lists.
SameGroup(sel, current_selection) == sel = current_selection

\* Line 366 appending to the old selection instead of replacing it.
NewSelection_merge(sel, current_selection) == sel \o current_selection

\* Line 366: selected_blocks = current_selection.
NewSelection(sel, current_selection) == current_selection

\* Line 369 forgotten: the old selection stays.
Deselect_keep(sel) == sel

\* Line 369: selected_blocks = [].
Deselect(sel) == <<>>

\* Lines 355-356: every cell of the selection is marked empty.
RECURSIVE RemoveBlocks(_, _, _)
RemoveBlocks(b, sel, i) ==
    IF i > Len(sel) THEN b
    ELSE RemoveBlocks(SetCell(b, sel[i][1], sel[i][2], EMPTY), sel, i + 1)

\* Compact without the column shift.
Compact_gravity_only(b) == apply_gravity(b)

\* Lines 361-362: gravity, then the column shift.
Compact(b) == shift_columns(apply_gravity(b))

\* Line 338 handling clicks after the game is over as well.
ClickAccepted_always(go, clicked) == clicked

\* Line 338: if not game_over and clicked.
ClickAccepted(go, clicked) == ~go /\ clicked

\* Lines 338-369: what a frame's click at (row, col) does to the game, started
\* from board b, score sc, selection sel and flag go.  `branch` names the
\* branch taken.
HandleClick(b, sc, sel, go, clicked, row, col) ==
    LET same(br) == [board |-> b, score |-> sc, selected_blocks |-> sel,
                     game_over |-> go, branch |-> br]
    IN
    IF ~ClickAccepted(go, clicked) THEN same("over")
    ELSE IF ~InBoard(row, col) THEN same("outside")
    ELSE IF b[row][col] = EMPTY THEN same("empty")
    ELSE LET current_selection == find_connected_blocks(b, row, col, b[row][col])
         IN
         IF Len(current_selection) >= 2
         THEN IF SameGroup(sel, current_selection)
              THEN LET nb == Compact(RemoveBlocks(b, sel, 1))
                   IN [board |-> nb,
                       score |-> sc + calculate_score(Len(current_selection)),
                       selected_blocks |-> <<>>,
                       game_over |-> check_game_over(nb),
                       branch |-> "remove"]
              ELSE [board |-> b, score |-> sc,
                    selected_blocks |-> NewSelection(sel, current_selection),
                    game_over |-> go, branch |-> "select"]
         ELSE [board |-> b, score |-> sc, selected_blocks |-> Deselect(sel),
               game_over |-> go, branch |-> "deselect"]

\* --------------------------------------------------------------- the frames

\* Where a click on the game screen can land: the cell (row, col) of lines
\* 341-342, one step beyond the board on every side included, and the
\* "Quit Game" button of line 396.  The button lies above the board
\* (y < 50 <= TOP_MARGIN, line 82), so a click on it has row < 0.
PlayClicks ==
    [row : (-1) .. current_board_height, col : (-1) .. current_board_width,
     quit : {FALSE}]
    \cup {[row |-> -1, col |-> 0, quit |-> TRUE]}

\* The value of `before` after a step that is no click on the game screen.
NoClickYet ==
    [board |-> <<>>, score |-> 0, selected_blocks |-> <<>>, game_over |-> FALSE,
     activated |-> FALSE, row |-> -1, col |-> -1]

\* The value of `result` while no engine function has been called on its own.
NoResult == [args |-> <<>>, value |-> <<>>]

MenuButtons == {"start", "settings", "miss"}

SettingsButtons ==
    {"minus_colors", "plus_colors", "minus_width", "plus_width",
     "minus_height", "plus_height", "back"}

Init ==
    /\ board = <<>>
    /\ score = 0
    /\ selected_blocks = <<>>
    /\ game_over = FALSE
    /\ current_num_colors = DefaultColors
    /\ current_board_width = DefaultWidth
    /\ current_board_height = DefaultHeight
    /\ game_state = "menu"
    /\ running = TRUE
    /\ last = "init"
    /\ activated = FALSE
    /\ before = NoClickYet
    /\ grid_in = <<>>
    /\ removals = 0
    /\ result = NoResult

\* Lines 302-303 (and 215-217 inside the settings menu): the window is closed.
QuitEvent ==
    /\ running
    /\ running' = FALSE
    /\ last' = "exit"
    /\ before' = NoClickYet
    /\ UNCHANGED <<board, score, selected_blocks, game_over, current_num_colors,
                   current_board_width, current_board_height, game_state,
                   activated, grid_in, removals, result>>

\* Lines 307-312: the R key after the game is over.  create_board draws a new
\* board and line 311 clears the selection.
RestartKey ==
    /\ running
    /\ game_state = "playing"
    /\ game_over
    /\ board' \in RandomBoards
    /\ score' = NewScore
    /\ game_over' = FALSE
    /\ selected_blocks' = <<>>
    /\ game_state' = "playing"
    /\ activated' = FALSE
    /\ last' = "restart"
    /\ before' = NoClickYet
    /\ removals' = 0
    /\ UNCHANGED <<current_num_colors, current_board_width, current_board_height,
                   running, grid_in, result>>

\* Lines 316-331: a click in the main menu.  create_board (lines 57-92)
\* assigns board, score and game_over; its "selected_blocks = []" of line 91
\* assigns a local name, because line 62 does not declare selected_blocks
\* global, so the selection of the game that was left stays.
MenuClick(button) ==
    /\ running
    /\ game_state = "menu"
    /\ \/ /\ button = "start"
          /\ board' \in RandomBoards
          /\ score' = NewScore
          /\ game_over' = FALSE
          /\ activated' = FALSE
          /\ removals' = 0
          /\ game_state' = "playing"
       \/ /\ button = "settings"
          /\ game_state' = "settings"
          /\ UNCHANGED <<board, score, game_over, activated, removals>>
       \/ /\ button = "miss"
          /\ UNCHANGED <<board, score, game_over, activated, removals, game_state>>
    /\ last' = button
    /\ before' = NoClickYet
    /\ UNCHANGED <<selected_blocks, current_num_colors, current_board_width,
                   current_board_height, running, grid_in, result>>

\* Adjust with the limits themselves taken as room to move.
Adjust_inclusive(value, button, minus, plus, lowest, highest) ==
    IF button = minus /\ value >= lowest THEN value - 1
    ELSE IF button = plus /\ value <= highest THEN value + 1
    ELSE value

\* Lines 239-244, 256-261, 273-278: the value of a setting after a click on
\* `button`, minus and plus being the names of its two buttons.
Adjust(value, button, minus, plus, lowest, highest) ==
    IF button = minus /\ value > lowest THEN value - 1
    ELSE IF button = plus /\ value < highest THEN value + 1
    ELSE value

\* Lines 210-287: a click in the settings menu.
SettingsClick(button) ==
    /\ running
    /\ game_state = "settings"
    /\ current_num_colors' =
         Adjust(current_num_colors, button, "minus_colors", "plus_colors",
                MinColors, MaxColors)
    /\ current_board_width' =
         Adjust(current_board_width, button, "minus_width", "plus_width",
                MinWidth, MaxWidth)
    /\ current_board_height' =
         Adjust(current_board_height, button, "minus_height", "plus_height",
                MinHeight, MaxHeight)
    /\ game_state' = IF button = "back" THEN "menu" ELSE "settings"
    /\ last' = IF button = "back" THEN "back" ELSE "setting"
    /\ before' = NoClickYet
    /\ UNCHANGED <<board, score, selected_blocks, game_over, running, activated,
                   grid_in, removals, result>>

\* Lines 337-398: a click on the game screen: on the board (338-369), then on
\* the Quit Game button (396-398).
PlayClick(click) ==
    /\ running
    /\ game_state = "playing"
    /\ LET after == HandleClick(board, score, selected_blocks, game_over,
                                TRUE, click.row, click.col)
       IN /\ board' = after.board
          /\ score' = after.score
          /\ selected_blocks' = after.selected_blocks
          /\ game_over' = after.game_over
          /\ activated' = (activated \/ after.branch \in {"select", "remove"})
          /\ removals' = IF after.branch = "remove" THEN removals + 1 ELSE removals
          /\ game_state' = IF click.quit THEN "menu" ELSE "playing"
          /\ last' = IF click.quit THEN "quit_game" ELSE after.branch
    /\ before' = [board |-> board, score |-> score,
                  selected_blocks |-> selected_blocks, game_over |-> game_over,
                  activated |-> activated, row |-> click.row, col |-> click.col]
    /\ UNCHANGED <<current_num_colors, current_board_width, current_board_height,
                   running, grid_in, result>>

\* One iteration of the frame loop (lines 297-400, and 210-287 while the
\* settings menu is open) with the one event that arrived in it.
Next ==
    \/ QuitEvent
    \/ RestartKey
    \/ \E button \in MenuButtons : MenuClick(button)
    \/ \E button \in SettingsButtons : SettingsClick(button)
    \/ \E click \in PlayClicks : PlayClick(click)

Spec == Init /\ [][Next]_vars


\* ------------------------------------------------ games under fixed settings

\* The program after its first Start Game click, the settings menu never
\* opened: a new board of PlayHeight x PlayWidth blocks of PlayColors colours.
InitPlay ==
    /\ current_num_colors = PlayColors
    /\ current_board_width = PlayWidth
    /\ current_board_height = PlayHeight
    /\ board \in RandomBoards
    /\ score = 0
    /\ selected_blocks = <<>>
    /\ game_over = FALSE
    /\ game_state = "playing"
    /\ running = TRUE
    /\ last = "start"
    /\ activated = FALSE
    /\ before = NoClickYet
    /\ grid_in = <<>>
    /\ removals = 0
    /\ result = NoResult

\* The frames of a player who plays and restarts; the run is followed up to
\* the click on Quit Game that brings the menu back.
NextPlay ==
    \/ RestartKey
    \/ \E click \in PlayClicks : PlayClick(click)

SpecPlay == InitPlay /\ [][NextPlay]_vars

\* ------------------------------------------ the compaction functions alone

\* Every grid of GridHeight x GridWidth cells, each EMPTY or one of GridColors
\* colours: the boards apply_gravity and shift_columns are called on.
AllGrids ==
    [0 .. (GridHeight - 1) -> [0 .. (GridWidth - 1) ->
        {EMPTY} \cup (0 .. (GridColors - 1))]]

InitCompact ==
    /\ board \in AllGrids
    /\ score = 0
    /\ selected_blocks = <<>>
    /\ game_over = FALSE
    /\ current_num_colors = GridColors
    /\ current_board_width = GridWidth
    /\ current_board_height = GridHeight
    /\ game_state = "playing"
    /\ running = TRUE
    /\ last = "grid"
    /\ activated = FALSE
    /\ before = NoClickYet
    /\ grid_in = board
    /\ removals = 0
    /\ result = NoResult

\* A call of apply_gravity() (lines 137-147) on the current board.
CallApplyGravity ==
    /\ board' = apply_gravity(board)
    /\ grid_in' = board
    /\ last' = "apply_gravity"
    /\ UNCHANGED <<score, selected_blocks, game_over, current_num_colors,
                   current_board_width, current_board_height, game_state,
                   running, activated, before, removals, result>>

\* A call of shift_columns() (lines 149-171) on the current board.
CallShiftColumns ==
    /\ board' = shift_columns(board)
    /\ grid_in' = board
    /\ last' = "shift_columns"
    /\ UNCHANGED <<score, selected_blocks, game_over, current_num_colors,
                   current_board_width, current_board_height, game_state,
                   running, activated, before, removals, result>>

\* The pair of calls of lines 361-362 on the current board; "compact_again"
\* when the step before was this pair too.
CallCompact ==
    /\ board' = Compact(board)
    /\ grid_in' = board
    /\ last' = IF last \in {"compact", "compact_again"} THEN "compact_again"
               ELSE "compact"
    /\ UNCHANGED <<score, selected_blocks, game_over, current_num_colors,
                   current_board_width, current_board_height, game_state,
                   running, activated, before, removals, result>>

NextCompact == CallApplyGravity \/ CallShiftColumns \/ CallCompact

SpecCompact == InitCompact /\ [][NextCompact]_vars

\* ---------------------------------------------- the search functions alone

\* Every grid of SearchHeight x SearchWidth cells, each EMPTY or one of
\* SearchColors colours.
SearchGrids ==
    [0 .. (SearchHeight - 1) -> [0 .. (SearchWidth - 1) ->
        {EMPTY} \cup (0 .. (SearchColors - 1))]]

InitSearch ==
    /\ board \in SearchGrids
    /\ score = 0
    /\ selected_blocks = <<>>
    /\ game_over = FALSE
    /\ current_num_colors = SearchColors
    /\ current_board_width = SearchWidth
    /\ current_board_height = SearchHeight
    /\ game_state = "playing"
    /\ running = TRUE
    /\ last = "grid"
    /\ activated = FALSE
    /\ before = NoClickYet
    /\ grid_in = board
    /\ removals = 0
    /\ result = NoResult

\* The arguments find_connected_blocks is called with: a cell of the grid with
\* the value of that cell (lines 187 and 350), or a position beside the grid
\* with any colour.
SearchCalls ==
    {<<r, c, board[r][c]>> : r \in Rows, c \in Cols}
    \cup {a \in (-1 .. SearchHeight) \X (-1 .. SearchWidth) \X (0 .. (SearchColors - 1)) :
            ~InBoard(a[1], a[2])}

\* A call of find_connected_blocks() (lines 107-135) on the current board.
\* The function has no assignment to the board.
CallFindConnectedBlocks(a) ==
    /\ result' = [args |-> a, value |-> find_connected_blocks(board, a[1], a[2], a[3])]
    /\ grid_in' = board
    /\ last' = "find_connected_blocks"
    /\ UNCHANGED <<board, score, selected_blocks, game_over, current_num_colors,
                   current_board_width, current_board_height, game_state,
                   running, activated, before, removals>>

\* A call of check_game_over() (lines 181-190) on the current board.
CallCheckGameOver ==
    /\ result' = [args |-> <<>>, value |-> check_game_over(board)]
    /\ grid_in' = board
    /\ last' = "check_game_over"
    /\ UNCHANGED <<board, score, selected_blocks, game_over, current_num_colors,
                   current_board_width, current_board_height, game_state,
                   running, activated, before, removals>>

NextSearch ==
    \/ \E a \in SearchCalls : CallFindConnectedBlocks(a)
    \/ CallCheckGameOver

SpecSearch == InitSearch /\ [][NextSearch]_vars

\* ------------------------------------------------------------ the claims

\* The non-empty cells of column c of b, from the top down.
ColumnBlocks(b, c) ==
    SelectSeq([i \in 1 .. current_board_height |-> b[i - 1][c]],
              LAMBDA v : v # EMPTY)

\* Column c of b, from the top down.
Column(b, c) == [i \in 1 .. current_board_height |-> b[i - 1][c]]

\* In column c of b no EMPTY cell lies below a non-empty one.
ColumnSettled(b, c) ==
    \A r \in Rows : (b[r][c] # EMPTY /\ r + 1 < current_board_height)
                        => b[r + 1][c] # EMPTY

ColumnIsEmpty(b, c) == \A r \in Rows : b[r][c] = EMPTY

\* The columns of b that hold a block, left to right.
FilledColumns(b) ==
    SelectSeq([i \in 1 .. current_board_width |-> i - 1],
              LAMBDA c : ~ColumnIsEmpty(b, c))

HasShape(b) ==
    /\ DOMAIN b = Rows
    /\ \A r \in Rows : DOMAIN b[r] = Cols

\* C8 - gravity stability: after apply_gravity every column has its blocks in
\* one block at the bottom, no EMPTY cell below a non-empty one, and the
\* colours of the column from the top down are those of the column's blocks
\* before the call, in the same order; so no block changes column.
C8_GravityStable ==
    last = "apply_gravity" =>
        /\ HasShape(board)
        /\ \A c \in Cols :
            /\ ColumnSettled(board, c)
            /\ ColumnBlocks(board, c) = ColumnBlocks(grid_in, c)

\* C8 witness: a call of apply_gravity that moved blocks of two colours of one
\* column past an empty cell.
C8_Witness ==
    /\ last = "apply_gravity"
    /\ board # grid_in
    /\ \E c \in Cols : ColumnBlocks(grid_in, c) = <<0, 1>> /\ grid_in[1][c] = EMPTY

\* C9 - shift ordering: after shift_columns the grid has the same dimensions,
\* the columns that held a block appear unchanged, cell for cell, from column
\* 0 on in their order, every column after them is EMPTY, and so no empty
\* column lies left of a non-empty one.
C9_ShiftOrdered ==
    last = "shift_columns" =>
        LET filled == FilledColumns(grid_in)
        IN /\ HasShape(board)
           /\ \A c \in Cols :
                IF c < Len(filled)
                THEN Column(board, c) = Column(grid_in, filled[c + 1])
                ELSE ColumnIsEmpty(board, c)
           /\ \A c, d \in Cols :
                (c < d /\ ColumnIsEmpty(board, c)) => ColumnIsEmpty(board, d)

\* C9 witness: a call of shift_columns on a grid with an empty column between
\* two different non-empty ones.
C9_Witness ==
    /\ last = "shift_columns"
    /\ board # grid_in
    /\ ~ColumnIsEmpty(grid_in, 0)
    /\ ColumnIsEmpty(grid_in, 1)
    /\ ~ColumnIsEmpty(grid_in, 2)
    /\ Column(grid_in, 0) # Column(grid_in, 2)

\* C10 - compaction is idempotent: apply_gravity then shift_columns run again
\* right after a first run leaves the grid as the first run left it.
C10_CompactIdempotent ==
    last = "compact_again" => board = grid_in

\* C10 witness: a second run on a grid with blocks and holes.
C10_Witness ==
    /\ last = "compact_again"
    /\ \E r \in Rows, c \in Cols : board[r][c] # EMPTY
    /\ \E r \in Rows, c \in Cols : board[r][c] = EMPTY


\* The cells of a list of cells.
Cells(sel) == {sel[i] : i \in 1 .. Len(sel)}

\* Two cells side by side or one above the other.
Adjacent(p, q) ==
    \/ p[1] = q[1] /\ (p[2] = q[2] + 1 \/ q[2] = p[2] + 1)
    \/ p[2] = q[2] /\ (p[1] = q[1] + 1 \/ q[1] = p[1] + 1)

\* The cells of S and all cells reachable from them over cells of equal colour.
RECURSIVE Grow(_, _)
Grow(b, S) ==
    LET more == {q \in Rows \X Cols :
                    /\ q \notin S
                    /\ \E p \in S : Adjacent(p, q) /\ b[q[1]][q[2]] = b[p[1]][p[2]]}
    IN IF more = {} THEN S ELSE Grow(b, S \cup more)

\* The region of cell (r, c) of b: empty off the board and at an EMPTY cell.
RegionOf(b, r, c) ==
    IF ~InBoard(r, c) THEN {}
    ELSE IF b[r][c] = EMPTY THEN {}
    ELSE Grow(b, {<<r, c>>})

\* b without the blocks at the cells of S.
Without(b, S) ==
    [r \in Rows |-> [c \in Cols |-> IF <<r, c>> \in S THEN EMPTY ELSE b[r][c]]]

\* No two neighbouring blocks of b have the same colour.
NoRemovableRegion(b) ==
    \A p, q \in Rows \X Cols :
        (Adjacent(p, q) /\ b[p[1]][p[2]] # EMPTY) => b[p[1]][p[2]] # b[q[1]][q[2]]

\* The last step was a click on the game screen, beside the Quit Game button,
\* of a game that was not over.
WasActivation == last \in {"outside", "empty", "select", "remove", "deselect"}

\* The region of the cell that click was on, on the board it was made on.
ClickedRegion == RegionOf(before.board, before.row, before.col)

\* C1 - confirmation by coordinate set: with a region of >= 2 cells pending,
\* a click on any cell of that region removes its cells, runs gravity and the
\* column shift, and clears the selection.
C1_ConfirmAtAnyCell ==
    (/\ WasActivation
     /\ Len(before.selected_blocks) >= 2
     /\ ClickedRegion = Cells(before.selected_blocks))
    => (/\ board = Compact(Without(before.board, ClickedRegion))
        /\ selected_blocks = <<>>)

\* C2 - two-phase confirm: the first click on a region of a board since the
\* board was created removes nothing: board and score stay as they are.
C2_NoRemovalAtFirstActivation ==
    (WasActivation /\ ~before.activated)
    => (board = before.board /\ score = before.score)

\* C3 - nothing is selected right after a board is created, by Start Game or
\* by the R key.
C3_NoSelectionOnNewBoard ==
    last \in {"start", "restart"} => selected_blocks = <<>>

\* C4 as claimed - a click on an EMPTY cell, beside the board or on a single
\* block clears the selection and leaves board and score alone.
C4_SmallRegionClears ==
    (WasActivation /\ Cardinality(ClickedRegion) < 2)
    => (/\ selected_blocks = <<>>
        /\ board = before.board
        /\ score = before.score)

\* C4 amended - a click on a single block (a region of 1 cell) clears the
\* selection; a click on an EMPTY cell or beside the board leaves the selection
\* as it is; board, score and game_over stay as they are in all three cases.
C4_SingleBlockClears ==
    (WasActivation /\ Cardinality(ClickedRegion) < 2)
    => (/\ selected_blocks =
              IF ClickedRegion = {} THEN before.selected_blocks ELSE <<>>
        /\ board = before.board
        /\ score = before.score
        /\ game_over = before.game_over)

\* C4 witness: a click on a single block that cleared a pending selection.
C4_Witness ==
    /\ WasActivation
    /\ Cardinality(ClickedRegion) = 1
    /\ Len(before.selected_blocks) >= 2
    /\ selected_blocks = <<>>

\* C5 - during play game_over is true exactly when the board has no region of
\* >= 2 cells, on the new board too.
C5_TerminalFlagExact ==
    (game_state = "playing" /\ running) => (game_over <=> NoRemovableRegion(board))

\* C6 - while game_over is true a click on the game screen is ignored (the
\* handler of lines 339-369 is not entered) and changes neither board, score,
\* selection nor game_over; the board changes only when create_board makes a
\* new one (the R key, or Start Game).
C6_GameOverIgnoresClicks ==
    [][/\ before'.game_over
            => (/\ last' \in {"over", "quit_game"}
                /\ UNCHANGED <<board, score, selected_blocks, game_over>>)
       /\ (game_over /\ board' # board) => last' \in {"restart", "start"}]_vars

\* C6 witness: a click on a cell of the board of a game that is over.
C6_Witness ==
    /\ last = "over"
    /\ before.game_over
    /\ InBoard(before.row, before.col)
    /\ game_over
    /\ board = before.board

\* C7 - a click on a region of >= 2 cells other than the pending one makes
\* exactly that region the selection, each cell once, and leaves board, score
\* and game_over as they are.
C7_SelectReplaces ==
    (/\ WasActivation
     /\ Cardinality(ClickedRegion) >= 2
     /\ Cells(before.selected_blocks) # ClickedRegion)
    => (/\ Cells(selected_blocks) = ClickedRegion
        /\ Len(selected_blocks) = Cardinality(ClickedRegion)
        /\ board = before.board
        /\ score = before.score
        /\ game_over = before.game_over)

\* C7 witness: a click on a region while a different region was pending.
C7_Witness ==
    /\ WasActivation
    /\ Cardinality(ClickedRegion) >= 2
    /\ Len(before.selected_blocks) >= 2
    /\ Cells(before.selected_blocks) \cap ClickedRegion = {}
    /\ Cells(selected_blocks) = ClickedRegion

\* C11 - region search: find_connected_blocks called at a cell with that
\* cell's colour returns, for a block of the grid, the cells that steps up,
\* down, left and right over blocks of that colour reach from it, the cell
\* itself among them, each cell once; for a position off the grid or an EMPTY
\* cell it returns the empty list; the grid is as it was before the call.
C11_RegionSearch ==
    last = "find_connected_blocks" =>
        LET found == result.value
            row == result.args[1]
            col == result.args[2]
        IN /\ Cells(found) = RegionOf(grid_in, row, col)
           /\ Len(found) = Cardinality(Cells(found))
           /\ (InBoard(row, col) /\ grid_in[row][col] # EMPTY)
                => <<row, col>> \in Cells(found)
           /\ (~InBoard(row, col) \/ grid_in[row][col] = EMPTY) => found = <<>>
           /\ board = grid_in

\* C11 witness: a call that returned a U-shaped region of five blocks around a
\* block of the other colour.
C11_Witness ==
    /\ last = "find_connected_blocks"
    /\ result.args = <<0, 0, 0>>
    /\ Cells(result.value) = {<<0, 0>>, <<1, 0>>, <<1, 1>>, <<1, 2>>, <<0, 2>>}
    /\ board[0][1] = 1

\* The pairs of neighbouring blocks of b that have the same colour.
EqualPairs(b) ==
    {pq \in (Rows \X Cols) \X (Rows \X Cols) :
        /\ Adjacent(pq[1], pq[2])
        /\ b[pq[1][1]][pq[1][2]] # EMPTY
        /\ b[pq[1][1]][pq[1][2]] = b[pq[2][1]][pq[2][2]]}

\* C12 - terminal test: check_game_over returns true exactly when no two
\* blocks side by side or one above the other have the same colour; it returns
\* false on a board with one such pair and true on a board with none, the
\* board without blocks included.
C12_TerminalTest ==
    last = "check_game_over" =>
        /\ result.value = (EqualPairs(grid_in) = {})
        /\ result.value = NoRemovableRegion(grid_in)
        /\ board = grid_in

\* C12 witness: a call that returned false on a board of five blocks whose only
\* equal neighbours are one pair (counted once in each direction).
C12_Witness ==
    /\ last = "check_game_over"
    /\ result.value = FALSE
    /\ Cardinality(EqualPairs(board)) = 2
    /\ Cardinality({p \in Rows \X Cols : board[p[1]][p[2]] # EMPTY}) = 5

\* The blocks of b.
Blocks(b) == {p \in Rows \X Cols : b[p[1]][p[2]] # EMPTY}

\* C13 - scoring formula: calculate_score(n) is (n - 2)^2 for n >= 2 and 0 for
\* n < 2, for every n from 0 up to the cells of the board; a confirmed removal
\* of n cells adds exactly (n - 2)^2 to the score, so a removal of 2 cells
\* adds 0.
C13_ScoringFormula ==
    /\ \A n \in 0 .. (current_board_width * current_board_height) :
            calculate_score(n) = IF n >= 2 THEN (n - 2) ^ 2 ELSE 0
    /\ last = "remove" =>
            LET n == Cardinality(Blocks(before.board)) - Cardinality(Blocks(board))
            IN /\ n >= 2
               /\ n = Cardinality(ClickedRegion)
               /\ score = before.score + (n - 2) ^ 2
               /\ n = 2 => score = before.score

\* C13 witness: a second removal of three blocks, which brought the score from
\* 1 to 2.
C13_Witness ==
    /\ last = "remove"
    /\ Cardinality(ClickedRegion) = 3
    /\ before.score = 1
    /\ score = 2

\* C14 - score monotonicity: the score is a natural number; it is 0 right after
\* every new board (Start Game or restart), it never decreases in any other
\* step, and it changes only at a confirmed removal or a new board.
C14_ScoreMonotone ==
    /\ score \in Nat
    /\ [][/\ score' \in Nat
          /\ last' \in {"start", "restart"} => score' = 0
          /\ last' \notin {"start", "restart"} => score' >= score
          /\ score' # score => last' \in {"remove", "start", "restart"}]_vars

\* C14 witness: a confirmed removal that raised the score of a game from 0 to
\* 4 and ended it, so that the R key can make the next board.
C14_Witness ==
    /\ last = "remove"
    /\ before.score = 0
    /\ score = 4
    /\ game_over
    /\ ENABLED RestartKey

\* C15 - configuration bounds: from the defaults and through every click in the
\* settings menu the width, the height and the number of colours stay within
\* their limits; every board is created with the settings of that moment, so
\* within the limits; every cell of a board in play is EMPTY or a colour index
\* below the number of colours, and every cell of any board is EMPTY or an
\* index of the palette.
C15_ConfigBounds ==
    /\ current_board_width \in MinWidth .. MaxWidth
    /\ current_board_height \in MinHeight .. MaxHeight
    /\ current_num_colors \in MinColors .. MaxColors
    /\ last \in {"start", "restart"} =>
            /\ HasShape(board)
            /\ \A r \in Rows, c \in Cols : board[r][c] \in 0 .. (current_num_colors - 1)
    /\ game_state = "playing" =>
            \A r \in Rows, c \in Cols :
                board[r][c] \in {EMPTY} \cup (0 .. (current_num_colors - 1))
    /\ \A r \in DOMAIN board : \A c \in DOMAIN board[r] :
            board[r][c] \in {EMPTY} \cup (0 .. (MaxColors - 1))

\* C15 witness: a board created at the lowest width and number of colours,
\* both below their defaults, and the default height.
C15_Witness ==
    /\ last = "start"
    /\ current_board_width = MinWidth /\ MinWidth < DefaultWidth
    /\ current_num_colors = MinColors /\ MinColors < DefaultColors
    /\ current_board_height = DefaultHeight
    /\ HasShape(board)

\* No EMPTY cell of b lies below a block, and no column of b without blocks
\* lies left of a column with blocks.
Settled(b) ==
    /\ \A c \in Cols : ColumnSettled(b, c)
    /\ \A c, d \in Cols : (c < d /\ ColumnIsEmpty(b, c)) => ColumnIsEmpty(b, d)

\* C16 - atomic removal step: the board of every frame of a game in play is
\* settled (no EMPTY cell below a block, no empty column left of a column with
\* blocks); after a removal the board is the board before without the clicked
\* region, gravity applied and then the column shift; and from the first
\* removal on, game_over is the terminal test of that very board.
C16_SettledFrames ==
    /\ game_state = "playing" => (HasShape(board) /\ Settled(board))
    /\ last = "remove" =>
            board = shift_columns(apply_gravity(Without(before.board, ClickedRegion)))
    /\ (game_state = "playing" /\ removals > 0) =>
            game_over = NoRemovableRegion(board)

\* C16 witness: a removal that left a block over a hole and an empty column
\* left of a column with blocks, in a game that goes on after it.
C16_Witness ==
    /\ last = "remove"
    /\ ~game_over
    /\ LET cleared == Without(before.board, ClickedRegion)
       IN /\ \E c \in Cols : ~ColumnSettled(cleared, c)
          /\ \E c, d \in Cols :
                c < d /\ ColumnIsEmpty(cleared, c) /\ ~ColumnIsEmpty(cleared, d)

\* C17 - configuration changes only outside play: the width, the height and
\* the number of colours change only in a step made inside the settings menu,
\* so never while a game is played; play is entered only with a board created
\* in that step; and in every frame of play the board has exactly
\* current_board_height rows of current_board_width cells.
C17_ConfigOutsidePlay ==
    [][/\ <<current_board_width, current_board_height, current_num_colors>>' #
            <<current_board_width, current_board_height, current_num_colors>>
            => (game_state = "settings" /\ game_state' = "settings")
       /\ (game_state # "playing" /\ game_state' = "playing") => last' = "start"
       /\ game_state' = "playing" =>
            /\ DOMAIN board' = 0 .. (current_board_height' - 1)
            /\ \A r \in DOMAIN board' :
                   DOMAIN board'[r] = 0 .. (current_board_width' - 1)]_vars

\* C17 witness: a removal in a game played on a board narrower than the
\* default, hence after a change of the settings.
C17_Witness ==
    /\ game_state = "playing"
    /\ last = "remove"
    /\ current_board_width < DefaultWidth
    /\ current_board_height = DefaultHeight
    /\ HasShape(board)

\* Every cell of b holds a block, all of one colour, and b has two cells or
\* more (the source's boards have 25 or more).
SingleColor(b) ==
    /\ HasShape(b)
    /\ current_board_width * current_board_height >= 2
    /\ \A p, q \in Rows \X Cols :
            b[p[1]][p[2]] # EMPTY /\ b[p[1]][p[2]] = b[q[1]][q[2]]

\* The last step was an activation of a cell of a single-colour board.
SingleColorActivation ==
    /\ WasActivation
    /\ SingleColor(before.board)
    /\ InBoard(before.row, before.col)

\* What the removal of a whole single-colour board leaves: no block, the
\* score raised by (width * height - 2)^2 (by 4 on a board of 4 cells), the
\* game over, nothing selected.
WholeBoardRemoved ==
    /\ last = "remove"
    /\ Blocks(board) = {}
    /\ score = before.score + (current_board_width * current_board_height - 2) ^ 2
    /\ (current_board_width * current_board_height = 4) => score = before.score + 4
    /\ game_over
    /\ selected_blocks = <<>>

\* C18 - single-colour board: on a board whose cells all have one colour the
\* region of any cell is the whole board; an activation with nothing selected
\* selects the whole board, and an activation of a cell of the board with the
\* whole board selected removes every block, leaves the board EMPTY
\* throughout, adds (width * height - 2)^2 to the score and sets game_over.
C18_SingleColorBoard ==
    SingleColorActivation =>
        /\ ClickedRegion = Rows \X Cols
        /\ before.selected_blocks = <<>> =>
              /\ last = "select"
              /\ board = before.board
              /\ Cells(selected_blocks) = Rows \X Cols
        /\ Cells(before.selected_blocks) = Rows \X Cols => WholeBoardRemoved

\* C18 with both activations on one cell: the first selects the whole board,
\* beginning with the cell; the second, on that cell, removes the whole board.
C18_SameCellTwice ==
    SingleColorActivation =>
        /\ ClickedRegion = Rows \X Cols
        /\ before.selected_blocks = <<>> =>
              /\ last = "select"
              /\ board = before.board
              /\ Cells(selected_blocks) = Rows \X Cols
              /\ selected_blocks[1] = <<before.row, before.col>>
        /\ (/\ Cells(before.selected_blocks) = Rows \X Cols
            /\ before.selected_blocks[1] = <<before.row, before.col>>)
              => WholeBoardRemoved

\* C19 without its last part: each confirmed removal takes at least 2 blocks
\* off the board, and the removals made on a board number at most
\* floor(width * height / 2).
C19_RemovalsBounded ==
    /\ last = "remove" =>
            Cardinality(Blocks(board)) + 2 <= Cardinality(Blocks(before.board))
    /\ game_state = "playing" =>
            /\ 2 * removals <= current_board_width * current_board_height
                                  - Cardinality(Blocks(board))
            /\ removals <= (current_board_width * current_board_height) \div 2

\* C19 - every game terminates: each confirmed removal takes at least 2 blocks
\* off the board; the removals of a game number at most
\* floor(width * height / 2); and a game in play that is not over has a region
\* the player can select and confirm, so that a player who keeps doing so
\* comes to game_over = true with no removable region left.  (game_over is
\* set only by a removal, line 363: a game in play that is not over and has no
\* removable region never becomes over.)
C19_GameTerminates ==
    /\ C19_RemovalsBounded
    /\ (game_state = "playing" /\ ~game_over) =>
            \E r \in Rows, c \in Cols : Cardinality(RegionOf(board, r, c)) >= 2

\* The number of cells of b that hold the value v.
Count(b, v) == Cardinality({p \in Rows \X Cols : b[p[1]][p[2]] = v})

\* b and d hold the same number of blocks of every colour.
SameBlocks(b, d) == \A k \in 0 .. (current_num_colors - 1) : Count(b, k) = Count(d, k)

\* C20 - conservation: after the confirmed removal of a region of n cells of
\* colour c (removal, gravity, column shift) the board holds n cells of colour
\* c fewer than before and as many of every other colour as before; gravity,
\* applied to the board the removal leaves, and the column shift, applied to
\* the board gravity leaves, each keep the number of blocks of every colour.
C20_BlocksConserved ==
    last = "remove" =>
        LET n == Cardinality(ClickedRegion)
            color == before.board[before.row][before.col]
            cleared == Without(before.board, ClickedRegion)
            fallen == apply_gravity(cleared)
            shifted == shift_columns(fallen)
        IN /\ \A k \in 0 .. (current_num_colors - 1) :
                Count(board, k) = Count(before.board, k) - (IF k = color THEN n ELSE 0)
           /\ Count(board, EMPTY) = Count(before.board, EMPTY) + n
           /\ SameBlocks(fallen, cleared)
           /\ SameBlocks(shifted, fallen)
           /\ board = shifted

\* C20 witness: a removal of three blocks of one colour from a board with
\* blocks of the other colour, after which gravity moved a block and the
\* column shift moved a column.
C20_Witness ==
    /\ last = "remove"
    /\ Cardinality(ClickedRegion) = 3
    /\ Count(board, 1 - before.board[before.row][before.col]) >= 2
    /\ LET cleared == Without(before.board, ClickedRegion)
       IN /\ apply_gravity(cleared) # cleared
          /\ shift_columns(apply_gravity(cleared)) # apply_gravity(cleared)

\* C20 for gravity and the column shift called on their own, on any grid:
\* each call keeps the number of blocks of every colour.
C20_CompactionConserves ==
    last \in {"apply_gravity", "shift_columns", "compact", "compact_again"} =>
        /\ SameBlocks(board, grid_in)
        /\ Count(board, EMPTY) = Count(grid_in, EMPTY)

====
